---- MODULE Spec2Model ----
(***************************************************************************)
(* Rate-state management of conversor_monedas.py: the in-memory RATES      *)
(* table, the JSON cache file with its daily fetch counter, the remote     *)
(* refresh, the manual override and the start-up sequence.                 *)
(*                                                                         *)
(* Decimal values are records [kind, num, exp] standing for num * 10^exp   *)
(* (kind "finite"), for Decimal("NaN") (kind "NaN"), or for the failure of *)
(* Decimal(text) (kind "invalid").  Text is a TLA+ string; Decimal(text)   *)
(* and str(Decimal) are the two directions of the table DecimalLiterals.   *)
(* Dates are day numbers, the local dates of date.today().  A timestamp is *)
(* the token UtcNow: line 195 writes the UTC instant of the save, whose    *)
(* date need not be the local date, and the program never reads its value  *)
(* back, it only tests that there is one and prints it (lines 81-82).      *)
(* The local date never moves backwards.  A handler reads the date once    *)
(* (line 171) and writes that date into the record (line 196), but the     *)
(* wait for the remote service (line 176) may last past midnight: the      *)
(* fetch then returns on, and counts for, the following day.               *)
(* Writes of the cache file succeed, except under SpecWriteFail.  One      *)
(* process runs the program, except under SpecRace, where a save is the    *)
(* two steps of _save_cache: open("w") empties the file, json.dump writes  *)
(* it.                                                                     *)
(*                                                                         *)
(* Variables:                                                              *)
(*   RATES       the module-level dict RATES (lines 20-32)                 *)
(*   cacheFile   the content of CACHE_PATH (line 35)                       *)
(*   today       what _today_str() returns (lines 38-39)                   *)
(*   pc          where the process is: "start" (before line 268), "menu"   *)
(*               (line 247), "ask_code" (line 209), "ask_rate" (line 211), *)
(*               "crashed" (an uncaught exception ended it), "exited"      *)
(*   manualCode  the code chosen at line 209, "" outside actualizar_tasa   *)
(*   last        what the last handler reported: its outcome, whether it   *)
(*               called the remote service and with what answer, the       *)
(*               counts it printed, the return value of                    *)
(*               _apply_cached_rates                                       *)
(*   fetched     per day, the calls of _fetch_rates_from_api that returned *)
(*   disk        whether CACHE_PATH can be written: "ok", "readonly" (open *)
(*               fails), "full" (the write fails after open truncated it)  *)
(*   procs       under SpecRace, for each of the processes inside          *)
(*               actualizar_tasas_api: its line, the cache it loaded, the  *)
(*               response it fetched, its own RATES, the cache_data it is  *)
(*               writing                                                   *)
(***************************************************************************)
EXTENDS Integers, FiniteSets, Sequences, TLC

VARIABLES RATES, cacheFile, today, pc, manualCode, last, fetched, disk, procs

vars == <<RATES, cacheFile, today, pc, manualCode, last, fetched, disk, procs>>

\* ---------------------------------------------------------------- bounds

\* Calendar days the clock runs through.
MaxDay == 2

\* Successful fetches of a run after which no further fetch is explored:
\* nothing in the program bounds them when cache writes fail or int()
\* refuses the fetch_count.  A run of MaxDay = 2 days on records that the
\* program wrote has at most 4.
MaxFetches == 4

\* The same for the concurrent processes.
MaxRaceFetches == 5

\* Processes that run actualizar_tasas_api on the same cache file.
NProcs == 2

Procs == 1..NProcs

Days == 1..MaxDay

\* datetime.utcnow().isoformat() + "Z", whatever the instant.
UtcNow == "utcnow"

\* -------------------------------------------------------------- decimals

Dec(n, e) == [kind |-> "finite", num |-> n, exp |-> e]

NaN == [kind |-> "NaN", num |-> 0, exp |-> 0]

InvalidOperation == [kind |-> "invalid", num |-> 0, exp |-> 0]

\* The decimal literals the model's inputs and defaults are written in,
\* each with the Decimal it denotes.
DecimalLiterals ==
    { <<"1", Dec(1, 0)>>, <<"0.92", Dec(92, -2)>>, <<"19.8", Dec(198, -1)>>,
      <<"980", Dec(980, 0)>>, <<"3940", Dec(3940, 0)>>, <<"910", Dec(910, 0)>>,
      <<"3.75", Dec(375, -2)>>, <<"0.78", Dec(78, -2)>>,
      <<"146.5", Dec(1465, -1)>>, <<"5.1", Dec(51, -1)>>,
      <<"1.36", Dec(136, -2)>>,
      <<"20", Dec(20, 0)>>, <<"0.9", Dec(9, -1)>>, <<"2", Dec(2, 0)>>,
      <<"0", Dec(0, 0)>>, <<"-1", Dec(-1, 0)>>, <<"NaN", NaN>> }

\* Decimal(text): the value of a literal, InvalidOperation for any other text.
Decimal(text) ==
    IF \E p \in DecimalLiterals : p[1] = text
    THEN (CHOOSE p \in DecimalLiterals : p[1] = text)[2]
    ELSE InvalidOperation

\* str(d) of a Decimal d.
DecimalStr(d) == (CHOOSE p \in DecimalLiterals : p[2] = d)[1]

\* d <= 0 for a finite Decimal d.
NonPositive(d) == d.num <= 0

Abs(n) == IF n < 0 THEN -n ELSE n

RECURSIVE Pow10(_)
Pow10(k) == IF k = 0 THEN 1 ELSE 10 * Pow10(k - 1)

\* |num * 10^e / den| >= 10^26, for den # 0 and |num|, |den| < 10^9: the
\* values whose quantize to two decimals needs more than the 28 digits of
\* the decimal context.
Wide(num, den, e) ==
    IF num = 0 THEN FALSE
    ELSE IF e - 26 >= 9 THEN TRUE
    ELSE IF e - 26 >= 0
    THEN Abs(num) >= (Abs(den) + Pow10(e - 26) - 1) \div Pow10(e - 26)
    ELSE IF 26 - e >= 9 THEN FALSE
    ELSE Abs(num) \div Pow10(26 - e) >= Abs(den)

\* ------------------------------------------------------------- constants

SUPPORTED ==
    { "USD", "EUR", "MXN", "ARS", "COP", "CLP", "PEN",
      "GBP", "JPY", "BRL", "CAD" }

DefaultRates ==
    [c \in SUPPORTED |->
        CASE c = "USD" -> Decimal("1")
          [] c = "EUR" -> Decimal("0.92")
          [] c = "MXN" -> Decimal("19.8")
          [] c = "ARS" -> Decimal("980")
          [] c = "COP" -> Decimal("3940")
          [] c = "CLP" -> Decimal("910")
          [] c = "PEN" -> Decimal("3.75")
          [] c = "GBP" -> Decimal("0.78")
          [] c = "JPY" -> Decimal("146.5")
          [] c = "BRL" -> Decimal("5.1")
          [] c = "CAD" -> Decimal("1.36") ]

\* The default of max_updates_per_day.
MAX_PER_DAY == 2

\* ------------------------------------------------------------ JSON values

JStr(t) == [type |-> "string", text |-> t, n |-> 0]

JInt(k) == [type |-> "int", text |-> "", n |-> k]

JNum(t) == [type |-> "number", text |-> t, n |-> 0]

JNull == [type |-> "null", text |-> "", n |-> 0]

JAbsent == [type |-> "absent", text |-> "", n |-> 0]

NoEntries == [c \in {} |-> JNull]

JObject(entries) == [type |-> "object", entries |-> entries]

JNoRates == [type |-> "absent", entries |-> NoEntries]

JOtherRates == [type |-> "other", entries |-> NoEntries]

\* str(value) of a JSON value as Python loads it.
PyStr(v) ==
    CASE v.type = "string" -> v.text
      [] v.type = "number" -> v.text
      [] OTHER -> "None"

\* ------------------------------------------------------------- cache file

\* The content of the cache file.  kind is "missing", "malformed" (not
\* JSON), "falsy" (JSON that is not an object and is false in Python: [],
\* "", 0, null), "nonobject" (JSON that is not an object and is true in
\* Python: [1], "x", 5) or "object".  day is {} when the key is absent or
\* holds no date, else {d}; last_updated is {} when the key is absent, else
\* {UtcNow}.
CacheObject(lu, day, fc, rates) ==
    [kind |-> "object", last_updated |-> lu, day |-> day,
     fetch_count |-> fc, rates |-> rates]

NotObject(kind) ==
    [kind |-> kind, last_updated |-> {}, day |-> {},
     fetch_count |-> JAbsent, rates |-> JNoRates]

EmptyDict == CacheObject({}, {}, JAbsent, JNoRates)

\* A file of size bytes that is not JSON: a record written over the start
\* of a longer one.
Torn(size) ==
    [kind |-> "malformed", last_updated |-> {}, day |-> {},
     fetch_count |-> JAbsent, rates |-> JNoRates, size |-> size]

None == NotObject("none")

\* json.load of the file, None when it is missing or does not parse.
load_cache(file) ==
    IF file.kind \in {"missing", "malformed"} THEN None ELSE file

\* bool(value) of what load_cache returned.  An object with none of the
\* four keys the program reads stands for {}.
Truthy(cache) ==
    \/ cache.kind = "nonobject"
    \/ cache.kind = "object" /\ cache # EmptyDict

\* `_load_cache() or {}`.
load_cache_or_empty(file) ==
    IF Truthy(load_cache(file)) THEN load_cache(file) ELSE EmptyDict

\* The JSON numbers json.load reads as a float that is not finite.
NonFinite == {"NaN", "Infinity", "-Infinity"}

\* cache.get("fetch_count", 0) used as a number: >= and - raise TypeError
\* on a string or null.  A fetch_count that is a JSON number is an integer
\* or one of NonFinite.
IsNumber(fc) ==
    \/ fc.type \in {"absent", "int"}
    \/ fc.type = "number" /\ fc.text \in NonFinite

FetchCountOr0(fc) == IF fc.type = "int" THEN fc.n ELSE 0

\* fc >= max for a number fc: false for NaN and -Infinity.
AtLeast(fc, max) ==
    IF fc.type = "number" THEN fc.text = "Infinity" ELSE FetchCountOr0(fc) >= max

\* int(text) of the strings a fetch_count is given as.
IntLiterals == { <<"1", 1>>, <<"2", 2>> }

\* int(fc) returns: it raises ValueError on NaN, OverflowError on an
\* infinity, TypeError on null, ValueError on other text.
IntParses(fc) ==
    \/ fc.type \in {"absent", "int"}
    \/ fc.type = "string" /\ \E p \in IntLiterals : p[1] = fc.text

IntOf(fc) ==
    IF fc.type = "string"
    THEN (CHOOSE p \in IntLiterals : p[1] = fc.text)[2]
    ELSE FetchCountOr0(fc)

Max(a, b) == IF a >= b THEN a ELSE b

\* dict assignment table[c] = new[c] for every c in codes.
Assign(table, codes, new) ==
    [c \in DOMAIN table \cup codes |->
        IF c \in codes THEN new[c] ELSE table[c]]

\* --------------------------------------------------- _apply_cached_rates

AppliedCodesSkipUsd(entries) ==
    { c \in (DOMAIN entries \cap SUPPORTED) \ {"USD"} :
        Decimal(PyStr(entries[c])).kind # "invalid" }

\* The entries of the cached rates that the loop assigns: the code is
\* supported and Decimal(str(value)) does not raise.
AppliedCodes(entries) ==
    { c \in DOMAIN entries \cap SUPPORTED :
        Decimal(PyStr(entries[c])).kind # "invalid" }

\* Result of _apply_cached_rates(): raised (AttributeError on a JSON value
\* without .get), the table afterwards, and the return value ({} for
\* None, {n} for the count n).
apply_cached_rates(table, file) ==
    LET cache == load_cache(file) IN
    IF ~Truthy(cache)
    THEN [raised |-> FALSE, table |-> table, updated |-> {}]
    ELSE IF cache.kind # "object"
    THEN [raised |-> TRUE, table |-> table, updated |-> {}]
    ELSE IF cache.rates.type # "object"
    THEN [raised |-> FALSE, table |-> table, updated |-> {}]
    ELSE LET codes == AppliedCodes(cache.rates.entries)
             new == [c \in codes |-> Decimal(PyStr(cache.rates.entries[c]))]
         IN [raised |-> FALSE, table |-> Assign(table, codes, new),
             updated |-> {Cardinality(codes)}]

\* -------------------------------------------------------- listar_monedas

\* Result of listar_monedas(): raised, whether the last-update footer is
\* printed, and the remaining updates it computes: max(0, 2 - fetch_count)
\* is 0 for NaN and Infinity and is inf for -Infinity (infinite, with
\* remaining 0 standing for no finite number).
listar_monedas(file, day) ==
    LET cache == load_cache_or_empty(file)
        raises == [raised |-> TRUE, footer |-> FALSE, remaining |-> 0,
                   infinite |-> FALSE]
    IN
    IF cache.kind # "object" THEN raises
    ELSE IF cache.day = {day} /\ ~IsNumber(cache.fetch_count) THEN raises
    ELSE [raised |-> FALSE, footer |-> cache.last_updated # {},
          remaining |-> IF cache.day # {day} THEN 2
                        ELSE IF cache.fetch_count.type = "number" THEN 0
                        ELSE Max(0, 2 - FetchCountOr0(cache.fetch_count)),
          infinite |-> /\ cache.day = {day}
                       /\ cache.fetch_count.type = "number"
                       /\ cache.fetch_count.text = "-Infinity"]

\* ------------------------------------------------- _fetch_rates_from_api

\* What the remote service answers: kind "neterr" (URLError, timeout),
\* "norates" (no JSON object with a "rates" key), "ratesnotobject" (a
\* "rates" that has no .items()), or "ok" with the rates object.
ApiFailure(kind) == [kind |-> kind, entries |-> NoEntries]

ApiOk(entries) == [kind |-> "ok", entries |-> entries]

\* No call of the remote service.
NoCall == ApiFailure("none")

\* Whether the call of line 176 raises: every exception of the fetch is
\* caught by lines 177-182.
FetchFailsOnlyNetwork(resp) == resp.kind = "neterr"

FetchFails(resp) == resp.kind # "ok"

\* The codes of the response whose value converts to a Decimal.
ApiCodes(entries) ==
    { c \in DOMAIN entries : Decimal(PyStr(entries[c])).kind # "invalid" }

\* The dict _fetch_rates_from_api returns for an "ok" response.
fetch_rates_from_api(resp) ==
    [c \in {"USD"} \cup ApiCodes(resp.entries) |->
        IF c \in ApiCodes(resp.entries)
        THEN Decimal(PyStr(resp.entries[c]))
        ELSE Decimal("1")]

\* -------------------------------------------------- actualizar_tasas_api

QuotaReachedAnyDay(cache, day, max) ==
    FetchCountOr0(cache.fetch_count) >= max

QuotaReachedOffByOne(cache, day, max) ==
    cache.day = {day} /\ FetchCountOr0(cache.fetch_count) > max

\* The quota test of line 172, for a cache whose fetch_count is a number.
QuotaReached(cache, day, max) ==
    cache.day = {day} /\ AtLeast(cache.fetch_count, max)

NewCountNoReset(cache, day) == FetchCountOr0(cache.fetch_count) + 1

\* new_count of lines 191-193.
NewCount(cache, day) ==
    IF cache.day = {day} THEN IntOf(cache.fetch_count) + 1 ELSE 1

\* The supported codes the refresh assigns (lines 186-189).
RefreshedCodes(all_rates) == SUPPORTED \cap DOMAIN all_rates

RefreshTableReplace(table, all_rates) ==
    [c \in RefreshedCodes(all_rates) |-> all_rates[c]]

\* The table after lines 186-189.
RefreshTable(table, all_rates) ==
    Assign(table, RefreshedCodes(all_rates), all_rates)

\* cache_data of lines 194-199.
CacheData(table, cache, day) ==
    CacheObject({UtcNow}, {day}, JInt(NewCount(cache, day)),
                JObject([k \in DOMAIN table |-> JStr(DecimalStr(table[k]))]))

\* The bytes of a record written by line 55 apart from the text of its
\* count and of its rates: braces, keys, quotes, indentation, the day and
\* the timestamp.
FixedBytes == 268

RECURSIVE SumLen(_, _)
SumLen(entries, keys) ==
    IF keys = {} THEN 0
    ELSE LET k == CHOOSE x \in keys : TRUE
         IN Len(entries[k].text) + SumLen(entries, keys \ {k})

\* The digits of a count below 100.
Digits(n) == IF n < 10 THEN 1 ELSE 2

\* The bytes in a file this program wrote: none when it is missing or was
\* just opened for writing.
Size(file) ==
    IF file.kind = "object" /\ file.rates.type = "object"
    THEN FixedBytes + Digits(FetchCountOr0(file.fetch_count))
         + SumLen(file.rates.entries, DOMAIN file.rates.entries)
    ELSE IF "size" \in DOMAIN file THEN file.size ELSE 0

\* json.dump(data, fh) on a handle opened earlier: it writes at offset 0
\* and leaves what the file holds beyond the end of data.
json_dump(file, data) ==
    IF Size(file) > Size(data) THEN Torn(Size(file)) ELSE data

\* _save_cache(data): the file afterwards.  Any exception of open or of
\* json.dump is swallowed (lines 56-57).
save_cache(file, data) ==
    CASE disk = "ok" -> data
      [] disk = "readonly" -> file
      [] OTHER -> NotObject("malformed")

\* Result of actualizar_tasas_api(max): outcome "raised" (an exception
\* leaves the function), "quota", "failed" or "refreshed"; whether the
\* fetcher was called and what the service answered; the table and the file
\* afterwards; the counts it prints.  It raises at line 172 before any
\* fetch, or at line 193 after the fetch and the assignments of lines
\* 186-189, when int() refuses the fetch_count that passed line 172.
actualizar_tasas_api(table, file, day, resp, max) ==
    LET cache == load_cache_or_empty(file)
        same == [outcome |-> "raised", fetcher |-> FALSE, api |-> NoCall,
                 table |-> table, file |-> file, updated |-> 0,
                 remaining |-> 0]
    IN
    IF cache.kind # "object" THEN same
    ELSE IF cache.day = {day} /\ ~IsNumber(cache.fetch_count) THEN same
    ELSE IF QuotaReached(cache, day, max)
    THEN [same EXCEPT !.outcome = "quota"]
    ELSE IF FetchFails(resp)
    THEN [same EXCEPT !.outcome = "failed", !.fetcher = TRUE, !.api = resp]
    ELSE LET newTable == RefreshTable(table, fetch_rates_from_api(resp))
         IN
         IF cache.day = {day} /\ ~IntParses(cache.fetch_count)
         THEN [same EXCEPT !.fetcher = TRUE, !.api = resp, !.table = newTable]
         ELSE
            [outcome |-> "refreshed", fetcher |-> TRUE, api |-> resp,
             table |-> newTable,
             file |-> save_cache(file, CacheData(newTable, cache, day)),
             updated |-> Cardinality(RefreshedCodes(fetch_rates_from_api(resp))),
             remaining |-> Max(0, max - NewCount(cache, day))]

\* ------------------------------------------------------ __main__ start-up

auto_update_counts(table, file, day, resp) ==
    LET cache == load_cache_or_empty(file)
        same == [outcome |-> "swallowed", fetcher |-> FALSE, api |-> NoCall,
                 table |-> table, file |-> file, updated |-> 0,
                 remaining |-> 0]
        fetch_count == IF cache.day = {day} THEN cache.fetch_count ELSE JInt(0)
        api == actualizar_tasas_api(table, file, day, resp, MAX_PER_DAY)
    IN
    IF cache.kind # "object" THEN same
    ELSE IF ~IntParses(fetch_count) THEN same
    ELSE IF Max(0, 2 - IntOf(fetch_count)) > 0
    THEN IF api.outcome = "raised" THEN [api EXCEPT !.outcome = "swallowed"]
         ELSE IF api.outcome = "failed"
         THEN [api EXCEPT !.file = save_cache(file, CacheData(table, cache, day))]
         ELSE api
    ELSE [same EXCEPT !.outcome = "skipped"]

\* The automatic update of lines 271-281, on the table the cache was
\* applied to.  Any exception is swallowed (outcome "swallowed").
auto_update(table, file, day, resp) ==
    LET cache == load_cache_or_empty(file)
        same == [outcome |-> "swallowed", fetcher |-> FALSE, api |-> NoCall,
                 table |-> table, file |-> file, updated |-> 0,
                 remaining |-> 0]
        fetch_count == IF cache.day = {day} THEN cache.fetch_count ELSE JInt(0)
        api == actualizar_tasas_api(table, file, day, resp, MAX_PER_DAY)
    IN
    IF cache.kind # "object" THEN same
    ELSE IF ~IntParses(fetch_count) THEN same
    ELSE IF Max(0, 2 - IntOf(fetch_count)) > 0
    THEN IF api.outcome = "raised" THEN [api EXCEPT !.outcome = "swallowed"]
         ELSE api
    ELSE [same EXCEPT !.outcome = "skipped"]

\* ----------------------------------------------------------------- inputs

\* Answers of the remote service.
ApiResponses ==
    { ApiFailure("neterr"), ApiFailure("norates"), ApiFailure("ratesnotobject"),
      ApiOk(("USD" :> JNum("1")) @@ ("MXN" :> JNum("20"))),
      ApiOk(("EUR" :> JNum("0.9")) @@ ("XXX" :> JNum("2"))),
      ApiOk(("USD" :> JNum("2")) @@ ("EUR" :> JNum("0")) @@ ("MXN" :> JNull)
            @@ ("GBP" :> JNum("NaN"))) }

\* Contents of the cache file that this program did not write.
ForeignRates ==
    { JNoRates, JOtherRates,
      JObject(("USD" :> JStr("not-a-number")) @@ ("EUR" :> JStr("0.9"))),
      JObject(("USD" :> JStr("2")) @@ ("EUR" :> JStr("-1"))
              @@ ("XXX" :> JStr("20")) @@ ("MXN" :> JNull)) }

ForeignCounts ==
    { JAbsent, JInt(0), JInt(2), JStr("abc"), JStr("1") }

\* A fetch_count that is not a finite number, in a record of day 1 without
\* rates.
NonFiniteCounts == { JNum(t) : t \in NonFinite }

CacheContents ==
    { NotObject(k) : k \in {"missing", "malformed", "falsy", "nonobject"} }
    \cup { CacheObject(IF d = {} THEN {} ELSE {UtcNow}, d, fc, r) :
              d \in {{}, {1}}, fc \in ForeignCounts, r \in ForeignRates }
    \cup { CacheObject({UtcNow}, {1}, fc, JNoRates) : fc \in NonFiniteCounts }

\* What the user types for a currency code, with normaliza_codigo of it.
CodeInputs == { <<" usd", "USD">>, <<"MXN", "MXN">>, <<"xxx ", "XXX">> }

normaliza_codigo(raw) == (CHOOSE p \in CodeInputs : p[1] = raw)[2]

\* What the user types for the amount, with Decimal of it after
\* .strip().replace(",", "."): the amounts leer_monto returns.
AmountInputs ==
    { <<"0,5", Dec(5, -1)>>, <<"1e25", Dec(1, 25)>>, <<"1e27", Dec(1, 27)>>,
      <<"1e30", Dec(1, 30)>> }

leer_monto(raw) == (CHOOSE p \in AmountInputs : p[1] = raw)[2]

\* What the user types for a rate, with .strip().replace(",", ".") of it.
RateInputs ==
    { <<" 3,75", "3.75">>, <<"0", "0">>, <<"-1", "-1">>,
      <<"abc", "abc">>, <<"NaN", "NaN">> }

StripComma(raw) == (CHOOSE p \in RateInputs : p[1] = raw)[2]

\* ------------------------------------------------------------------ state

NoOutput ==
    [op |-> "none", outcome |-> "none", fetcher |-> FALSE, api |-> NoCall,
     updated |-> 0, remaining |-> 0, infinite |-> FALSE, applied |-> {}]

Output(op, outcome) == [NoOutput EXCEPT !.op = op, !.outcome = outcome]

ApiOutput(op, r) ==
    [NoOutput EXCEPT !.op = op, !.outcome = r.outcome, !.fetcher = r.fetcher,
                     !.api = r.api, !.updated = r.updated, !.remaining = r.remaining]

\* The day on which a handler that began today ends: the next one when
\* midnight passes (late) while it waits for the remote service.
EndDay(late) == IF late THEN today + 1 ELSE today

\* Whether midnight can pass inside the handler that reported r: only in
\* the wait of line 176, and not beyond the days explored.
MayBeLate(r, late) == late => ( r.fetcher /\ today < MaxDay )

\* The fetch counters, one more on the day a successful fetch returned.
Count(r, late) ==
    IF r.fetcher /\ ~FetchFails(r.api)
    THEN [fetched EXCEPT ![EndDay(late)] = @ + 1]
    ELSE fetched

\* A process outside actualizar_tasas_api, with its RATES.
Idle(table) ==
    [at |-> "idle", cache |-> EmptyDict, resp |-> NoCall, table |-> table,
     data |-> EmptyDict]

Start(file) ==
    /\ RATES = DefaultRates
    /\ cacheFile = file
    /\ today = 1
    /\ pc = "start"
    /\ manualCode = ""
    /\ last = NoOutput
    /\ fetched = [d \in Days |-> 0]
    /\ disk = "ok"
    /\ procs = [p \in Procs |-> Idle(DefaultRates)]

\* First run: no cache file yet.
Init == Start(NotObject("missing"))

\* A run that finds a cache file of any content.
InitAnyCache == \E file \in CacheContents : Start(file)

\* ---------------------------------------------------------------- actions

\* Lines 266-283 up to the call of menu().  The date is the one read at
\* lines 273 and 171; with late, midnight passes during the fetch.
Startup(resp, late) ==
    /\ pc = "start"
    /\ LET ap == apply_cached_rates(RATES, cacheFile)
           r == auto_update(ap.table, cacheFile, today, resp)
       IN IF ap.raised
          THEN /\ ~late
               /\ pc' = "crashed"
               /\ last' = Output("startup", "crashed")
               /\ UNCHANGED <<RATES, cacheFile, fetched, today>>
          ELSE /\ MayBeLate(r, late)
               /\ pc' = "menu"
               /\ RATES' = r.table
               /\ cacheFile' = r.file
               /\ last' = [ApiOutput("startup", r) EXCEPT !.applied = ap.updated]
               /\ fetched' = Count(r, late)
               /\ today' = EndDay(late)
    /\ UNCHANGED <<manualCode, disk, procs>>

\* Menu option 3.  The date is the one read at line 171; with late,
\* midnight passes during the fetch.
MenuRefresh(resp, late) ==
    /\ pc = "menu"
    /\ LET r == actualizar_tasas_api(RATES, cacheFile, today, resp, MAX_PER_DAY)
       IN /\ MayBeLate(r, late)
          /\ pc' = IF r.outcome = "raised" THEN "crashed" ELSE "menu"
          /\ RATES' = r.table
          /\ cacheFile' = r.file
          /\ last' = ApiOutput("refresh", r)
          /\ fetched' = Count(r, late)
          /\ today' = EndDay(late)
    /\ UNCHANGED <<manualCode, disk, procs>>

\* Menu option 2: what line 90 prints, remaining or inf (infinite).
MenuList ==
    /\ pc = "menu"
    /\ LET l == listar_monedas(cacheFile, today)
       IN /\ pc' = IF l.raised THEN "crashed" ELSE "menu"
          /\ last' = [Output("list", IF l.raised THEN "raised" ELSE "listed")
                        EXCEPT !.remaining = l.remaining,
                               !.infinite = l.infinite]
    /\ UNCHANGED <<RATES, cacheFile, today, manualCode, fetched, disk, procs>>

\* convertir(monto, desde, hacia) on a table, as far as the printing needs
\* it: kind "raised" (the division by a zero rate raises), "NaN" (a NaN
\* rate, the result is NaN), or "finite" with wide = the result is 10^26 or
\* more in magnitude.
convertir(monto, desde, hacia, table) ==
    IF desde = hacia
    THEN [kind |-> "finite", wide |-> Wide(monto.num, 1, monto.exp)]
    ELSE IF table[desde].kind = "NaN" THEN [kind |-> "NaN", wide |-> FALSE]
    ELSE IF table[desde].num = 0 THEN [kind |-> "raised", wide |-> FALSE]
    ELSE IF table[hacia].kind = "NaN" THEN [kind |-> "NaN", wide |-> FALSE]
    ELSE [kind |-> "finite",
          wide |-> Wide(monto.num * table[hacia].num, table[desde].num,
                        monto.exp + table[hacia].exp - table[desde].exp)]

\* formatea(valor, code) raises: quantize overflows the context.
formatea_raises(valor) == valor.kind = "finite" /\ valor.wide

\* flujo_conversion() for the amount and the codes the prompts accept:
\* whether it raises (in listar_monedas, in the division, or in formatea of
\* the amount or of the result).
flujo_conversion(raw, desde, hacia, table, file, day) ==
    LET monto == leer_monto(raw)
        resultado == convertir(monto, desde, hacia, table)
    IN \/ listar_monedas(file, day).raised
       \/ resultado.kind = "raised"
       \/ formatea_raises(convertir(monto, desde, desde, table))
       \/ formatea_raises(resultado)

\* Menu option 1: flujo_conversion inside the try of lines 249-252.
\* Whatever it raises is reported as an error.
MenuConvert(raw, desde, hacia) ==
    /\ pc = "menu"
    /\ desde \in DOMAIN RATES /\ hacia \in DOMAIN RATES
    /\ last' = Output("convert",
                      IF flujo_conversion(raw, desde, hacia, RATES, cacheFile, today)
                      THEN "error" ELSE "shown")
    /\ UNCHANGED <<RATES, cacheFile, today, pc, manualCode, fetched, disk, procs>>

\* Menu option 4, up to the first prompt.
MenuManual ==
    /\ pc = "menu"
    /\ LET l == listar_monedas(cacheFile, today)
       IN /\ pc' = IF l.raised THEN "crashed" ELSE "ask_code"
          /\ last' = Output("manual", IF l.raised THEN "raised" ELSE "asking")
    /\ UNCHANGED <<RATES, cacheFile, today, manualCode, fetched, disk, procs>>

\* leer_moneda: one answer to the prompt for the code.
AskCode(raw) ==
    /\ pc = "ask_code"
    /\ IF normaliza_codigo(raw) \in DOMAIN RATES
       THEN /\ pc' = "ask_rate"
            /\ manualCode' = normaliza_codigo(raw)
       ELSE UNCHANGED <<pc, manualCode>>
    /\ last' = Output("manual", "asking")
    /\ UNCHANGED <<RATES, cacheFile, today, fetched, disk, procs>>

RateAcceptedZero(val) == val.kind = "finite" /\ val.num >= 0

\* Whether lines 215-219 store the value typed.
RateAccepted(val) == val.kind = "finite" /\ ~NonPositive(val)

\* actualizar_tasa: one answer to the prompt for the rate.
AskRate(raw) ==
    /\ pc = "ask_rate"
    /\ LET val == Decimal(StripComma(raw))
       IN IF RateAccepted(val)
          THEN /\ RATES' = Assign(RATES, {manualCode}, [c \in {manualCode} |-> val])
               /\ pc' = "menu"
               /\ manualCode' = ""
               /\ last' = Output("manual", "accepted")
          ELSE /\ last' = Output("manual", "rejected")
               /\ UNCHANGED <<RATES, pc, manualCode>>
    /\ UNCHANGED <<cacheFile, today, fetched, disk, procs>>

\* Menu option 5.
MenuExit ==
    /\ pc = "menu"
    /\ pc' = "exited"
    /\ last' = Output("exit", "none")
    /\ UNCHANGED <<RATES, cacheFile, today, manualCode, fetched, disk, procs>>

\* The process has ended (exit, uncaught exception, or killed at a
\* prompt) and the program is run again: RATES is the module's default.
Restart ==
    /\ pc # "start"
    /\ pc' = "start"
    /\ RATES' = DefaultRates
    /\ manualCode' = ""
    /\ last' = NoOutput
    /\ UNCHANGED <<cacheFile, today, fetched, disk, procs>>

\* date.today() moves to the next day.
Midnight ==
    /\ today < MaxDay
    /\ today' = today + 1
    /\ UNCHANGED <<RATES, cacheFile, pc, manualCode, last, fetched, disk, procs>>

\* The successful fetches of the days up to d.
RECURSIVE Total(_)
Total(d) == IF d = 0 THEN 0 ELSE fetched[d] + Total(d - 1)

\* The run has not reached the number of fetches the exploration stops at.
Capped == Total(MaxDay) < MaxFetches

\* The step fetched successfully only if the run was under that number; a
\* step that is refused, skips the fetch or fails in it is always explored.
WithinCap == ( last'.fetcher /\ ~FetchFails(last'.api) ) => Capped

Next ==
    \/ \E resp \in ApiResponses, late \in BOOLEAN :
          Startup(resp, late) /\ WithinCap
    \/ \E resp \in ApiResponses, late \in BOOLEAN :
          MenuRefresh(resp, late) /\ WithinCap
    \/ MenuList
    \/ \E p \in AmountInputs, desde \in {"USD", "EUR"}, hacia \in {"USD", "MXN"} :
          MenuConvert(p[1], desde, hacia)
    \/ MenuManual
    \/ \E p \in CodeInputs : AskCode(p[1])
    \/ \E p \in RateInputs : AskRate(p[1])
    \/ MenuExit
    \/ Restart
    \/ Midnight

Spec == Init /\ [][Next]_vars

SpecAnyCache == InitAnyCache /\ [][Next]_vars

\* ------------------------------------------------- failing cache writes

DiskStates == {"ok", "readonly", "full"}

\* The file system changes under the program.
DiskChange(d) ==
    /\ d # disk
    /\ disk' = d
    /\ UNCHANGED <<RATES, cacheFile, today, pc, manualCode, last, fetched, procs>>

\* Every step of the program, and the file system changing under it.
NextWriteFail ==
    \/ Next
    \/ \E d \in DiskStates : DiskChange(d)

\* One sequential process, first run, with cache writes that may fail.
SpecWriteFail == Init /\ [][NextWriteFail]_vars

\* ------------------------------------- concurrent actualizar_tasas_api

\* Answers of the remote service to the concurrent processes.
RaceResponses ==
    { ApiFailure("neterr"),
      ApiOk(("USD" :> JNum("1")) @@ ("MXN" :> JNum("20"))),
      ApiOk(("USD" :> JNum("1")) @@ ("MXN" :> JNum("3.75"))) }

Others == <<RATES, today, pc, manualCode, last, disk>>

\* Line 170-171: process p enters actualizar_tasas_api and loads the cache.
RaceLoad(p) ==
    /\ procs[p].at = "idle"
    /\ procs' = [procs EXCEPT ![p].at = "loaded",
                              ![p].cache = load_cache_or_empty(cacheFile)]
    /\ UNCHANGED <<cacheFile, fetched, Others>>

\* Lines 172-174: the quota test on the cache p loaded.
RaceCheck(p) ==
    /\ procs[p].at = "loaded"
    /\ procs' = [procs EXCEPT ![p].at =
                    IF QuotaReached(procs[p].cache, today, MAX_PER_DAY)
                    THEN "idle" ELSE "checked"]
    /\ UNCHANGED <<cacheFile, fetched, Others>>

\* Lines 175-182: the fetch of p.
RaceFetch(p, resp) ==
    /\ procs[p].at = "checked"
    /\ fetched[today] < MaxRaceFetches
    /\ IF FetchFails(resp)
       THEN /\ procs' = [procs EXCEPT ![p].at = "idle"]
            /\ UNCHANGED fetched
       ELSE /\ procs' = [procs EXCEPT ![p].at = "fetched", ![p].resp = resp]
            /\ fetched' = [fetched EXCEPT ![today] = @ + 1]
    /\ UNCHANGED <<cacheFile, Others>>

\* Lines 185-200 up to line 54: p assigns its RATES, builds cache_data from
\* the cache it loaded and opens the file for writing, which empties it.
RaceOpen(p) ==
    /\ procs[p].at = "fetched"
    /\ LET newTable == RefreshTable(procs[p].table,
                                    fetch_rates_from_api(procs[p].resp))
       IN procs' = [procs EXCEPT ![p].at = "opened", ![p].table = newTable,
                                 ![p].data = CacheData(newTable, procs[p].cache,
                                                       today)]
    /\ cacheFile' = NotObject("malformed")
    /\ UNCHANGED <<fetched, Others>>

\* Line 55 and the return to the menu: json.dump writes cache_data.
RaceDump(p) ==
    /\ procs[p].at = "opened"
    /\ cacheFile' = json_dump(cacheFile, procs[p].data)
    /\ procs' = [procs EXCEPT ![p] = Idle(procs[p].table)]
    /\ UNCHANGED <<fetched, Others>>

NextRace ==
    \/ \E p \in Procs : RaceLoad(p)
    \/ \E p \in Procs : RaceCheck(p)
    \/ \E p \in Procs, resp \in RaceResponses : RaceFetch(p, resp)
    \/ \E p \in Procs : RaceOpen(p)
    \/ \E p \in Procs : RaceDump(p)

\* NProcs processes at the menu of a first run, each choosing option 3 any
\* number of times, on one day.
SpecRace == Init /\ [][NextRace]_vars

\* ------------------------------------------------------------- properties

\* A step of menu option 3, and a step of the start-up sequence.
\* The answer of the service in a step that reports out; a step that did
\* not call the service is the same step for every answer.
Answer(out) == IF out.fetcher THEN out.api ELSE ApiFailure("neterr")

RefreshStep ==
    /\ pc = "menu" /\ last'.op = "refresh"
    /\ Answer(last') \in ApiResponses
    /\ MenuRefresh(Answer(last'), today' # today)

StartupStep ==
    /\ pc = "start" /\ last'.op = "startup"
    /\ Answer(last') \in ApiResponses
    /\ Startup(Answer(last'), today' # today)

\* A step in which actualizar_tasas_api fetched and saved.
FetchedStep ==
    /\ last'.outcome = "refreshed"
    /\ RefreshStep \/ StartupStep

\* A step in which _fetch_rates_from_api returned the rates (line 176).
FetchOkStep ==
    /\ last'.fetcher /\ ~FetchFails(last'.api)
    /\ RefreshStep \/ StartupStep

\* The persisted record as the program reads it.
Record == load_cache_or_empty(cacheFile)

IsRecord == cacheFile.kind = "object"

\* C1: with a cache file that only this program writes, on no calendar day
\* do more than MAX_PER_DAY remote fetches succeed, whatever the sequence
\* of start-ups, menu operations, restarts and midnights.
C1_DailyQuota == \A d \in Days : fetched[d] <= MAX_PER_DAY

\* C2: a refresh invoked while the record has day = today and
\* fetch_count >= MAX_PER_DAY does not call the fetcher, reports a
\* non-refreshed outcome, and leaves RATES and the cache file unchanged.
C2_QuotaRefusal ==
    [][ ( /\ IsRecord
          /\ cacheFile.day = {today}
          /\ IsNumber(cacheFile.fetch_count)
          /\ AtLeast(cacheFile.fetch_count, MAX_PER_DAY)
          /\ RefreshStep )
        => ( /\ last'.fetcher = FALSE
             /\ last'.outcome = "quota"
             /\ RATES' = RATES
             /\ cacheFile' = cacheFile
             /\ fetched' = fetched ) ]_vars

\* A refresh was refused on a record of today with the quota used up.
C2_Witness ==
    /\ last.op = "refresh" /\ last.outcome = "quota"
    /\ IsRecord /\ cacheFile.day = {today}
    /\ cacheFile.fetch_count = JInt(MAX_PER_DAY)

\* C3: for a record whose day is not today, whatever its fetch_count, the
\* remaining updates are MAX_PER_DAY, a refresh is not refused, and a
\* successful one persists fetch_count = 1 with day = today; for a record of
\* today a successful refresh persists the previous fetch_count + 1.
C3_NewDayReset ==
    [][ /\ ( IsRecord /\ cacheFile.day # {today} /\ RefreshStep )
           => ( /\ listar_monedas(cacheFile, today).raised = FALSE
                /\ listar_monedas(cacheFile, today).remaining = MAX_PER_DAY
                /\ last'.outcome \in {"refreshed", "failed"}
                /\ last'.fetcher = TRUE )
        /\ ( IsRecord /\ cacheFile.day # {today} /\ FetchedStep )
           => ( cacheFile'.fetch_count = JInt(1) /\ cacheFile'.day = {today} )
        /\ ( IsRecord /\ cacheFile.day = {today} /\ FetchedStep )
           => ( /\ cacheFile'.fetch_count =
                      JInt(FetchCountOr0(cacheFile.fetch_count) + 1)
                /\ cacheFile'.day = {today} ) ]_vars

\* The quota of day 1 was used up and the first fetch of day 2 succeeded,
\* leaving fetch_count = 1.
C3_Witness ==
    /\ today = 2 /\ fetched[1] = MAX_PER_DAY /\ fetched[2] = 1
    /\ last.outcome = "refreshed"
    /\ cacheFile.fetch_count = JInt(1) /\ cacheFile.day = {2}

\* C4: when the fetcher fails (network error or malformed response) the
\* refresh reports failure, RATES keeps every entry it had when the refresh
\* began, and the cache file is unchanged, so no quota is consumed.
C4_FailedRefresh ==
    [][ /\ ( last'.fetcher /\ last'.api.kind # "ok" /\ RefreshStep )
           => ( /\ last'.outcome = "failed"
                /\ RATES' = RATES
                /\ cacheFile' = cacheFile
                /\ fetched' = fetched )
        /\ ( last'.fetcher /\ last'.api.kind # "ok" /\ StartupStep )
           => ( /\ last'.outcome = "failed"
                /\ RATES' = apply_cached_rates(RATES, cacheFile).table
                /\ cacheFile' = cacheFile
                /\ fetched' = fetched ) ]_vars

\* A refresh whose fetch failed on a malformed response, after an earlier
\* successful fetch had written the record.
C4_Witness ==
    /\ last.op = "refresh" /\ last.outcome = "failed"
    /\ last.api.kind \in {"norates", "ratesnotobject"}
    /\ IsRecord /\ cacheFile.fetch_count = JInt(1)

\* C5: whatever the cache file holds, the start-up sequence completes
\* without an error and reaches the menu.
C5_StartupSucceeds == last.op = "startup" => pc # "crashed"

\* C6: every entry of RATES is a rate > 0 in every reachable state.
C6_PositiveRates ==
    \A c \in DOMAIN RATES : RATES[c].kind = "finite" /\ RATES[c].num > 0

\* C7: every one of the 11 supported codes has an entry in RATES in every
\* reachable state.
C7_TotalRateTable ==
    /\ Cardinality(SUPPORTED) = 11
    /\ SUPPORTED \subseteq DOMAIN RATES

\* A table that a successful fetch and a manual override have both
\* written.
C7_Witness ==
    /\ \E d \in Days : fetched[d] > 0
    /\ last.op = "manual" /\ last.outcome = "accepted"
    /\ RATES # DefaultRates

\* C8: the RATES entry of USD is exactly 1 in every reachable state.
C8_UsdReference == RATES["USD"] = Decimal("1")

\* The rates a cache application is specified to store: supported code and
\* a value that parses to a positive decimal.
PositiveCodes(entries) ==
    { c \in DOMAIN entries \cap SUPPORTED :
        /\ Decimal(PyStr(entries[c])).kind = "finite"
        /\ Decimal(PyStr(entries[c])).num > 0 }

\* C9: applying a record stores exactly the entries with a supported code
\* and a value that parses to a positive decimal, leaves the other entries
\* of RATES as they were, does not raise, and returns how many it stored.
\* Stated on the start-up steps whose automatic update does not fetch.
C9_PerEntryApply ==
    [][ ( /\ IsRecord
          /\ cacheFile.rates.type = "object"
          /\ last'.outcome # "refreshed"
          /\ StartupStep )
        => ( /\ pc' = "menu"
             /\ \A c \in SUPPORTED :
                   RATES'[c] =
                     IF c \in PositiveCodes(cacheFile.rates.entries)
                     THEN Decimal(PyStr(cacheFile.rates.entries[c]))
                     ELSE RATES[c]
             /\ last'.applied =
                   {Cardinality(PositiveCodes(cacheFile.rates.entries))} ) ]_vars

\* The fetched mapping of the worked example.
ExampleResponse == ApiOk(("USD" :> JNum("1")) @@ ("MXN" :> JNum("20")))

\* C10: after a fetch that succeeded RATES holds the fetched value of every
\* supported code in the fetched mapping, and the cache file is a new record
\* (nothing of the old one kept) with day = today, fetch_count = 1 on a new
\* day or the old count + 1, and rates = RATES over exactly the supported
\* codes; an absent cache and fetched {USD: 1, MXN: 20} give fetch_count 1,
\* remaining 1 and RATES[MXN] = 20.
C10_RecordWritten ==
    [][ FetchOkStep =>
        LET all_rates == fetch_rates_from_api(last'.api)
            old == Record
        IN /\ \A c \in SUPPORTED \cap DOMAIN all_rates : RATES'[c] = all_rates[c]
           /\ cacheFile'.kind = "object"
           /\ cacheFile'.day = {today}
           /\ cacheFile'.last_updated = {UtcNow}
           /\ cacheFile'.fetch_count =
                 JInt(IF old.day = {today}
                      THEN FetchCountOr0(old.fetch_count) + 1 ELSE 1)
           /\ cacheFile'.rates.type = "object"
           /\ DOMAIN cacheFile'.rates.entries = SUPPORTED
           /\ \A c \in SUPPORTED :
                 cacheFile'.rates.entries[c] = JStr(DecimalStr(RATES'[c]))
           /\ ( cacheFile.kind = "missing" /\ last'.api = ExampleResponse )
              => ( /\ cacheFile'.fetch_count = JInt(1)
                   /\ last'.remaining = 1
                   /\ RATES'["MXN"] = Dec(20, 0) ) ]_vars

\* C11: the record a successful refresh saves, loaded and applied by a
\* restarted process with no write in between, gives back for every
\* supported code the value RATES held when the record was saved: the
\* saved record applied to the defaults is the table of that moment, and
\* a start-up that does not fetch leaves RATES equal to what the record it
\* found holds.
C11_RoundTrip ==
    [][ /\ FetchedStep
           => ( /\ apply_cached_rates(DefaultRates, cacheFile').raised = FALSE
                /\ \A c \in SUPPORTED :
                      apply_cached_rates(DefaultRates, cacheFile').table[c]
                        = RATES'[c] )
        /\ ( IsRecord /\ last'.outcome # "refreshed" /\ StartupStep )
           => \A c \in SUPPORTED :
                 cacheFile.rates.entries[c] = JStr(DecimalStr(RATES'[c])) ]_vars

\* A restarted process whose start-up did not fetch holds the table of the
\* record, which differs from the defaults in a fetched and in an
\* overridden entry.
C11_Witness ==
    /\ last.op = "startup" /\ last.outcome \in {"failed", "skipped"}
    /\ last.applied = {11}
    /\ RATES["EUR"] = Dec(9, -1) /\ RATES["MXN"] = Dec(375, -2)
    /\ cacheFile.rates.entries["MXN"] = JStr("3.75")

\* One answer to the rate prompt of actualizar_tasa.
AskRateStep ==
    /\ pc = "ask_rate" /\ last'.op = "manual"
    /\ \E p \in RateInputs : AskRate(p[1])

\* C13: a manual override that is accepted stores a value > 0 in the entry
\* of the chosen code and changes no other entry of RATES and nothing of the
\* cache file; an answer that is rejected (<= 0 or not a number) changes
\* neither RATES nor the cache file.
C13_ManualFrame ==
    [][ AskRateStep =>
        /\ cacheFile' = cacheFile
        /\ fetched' = fetched
        /\ last'.outcome \in {"accepted", "rejected"}
        /\ last'.outcome = "accepted"
           => ( /\ RATES'[manualCode].kind = "finite"
                /\ RATES'[manualCode].num > 0
                /\ DOMAIN RATES' = DOMAIN RATES
                /\ \A c \in DOMAIN RATES \ {manualCode} : RATES'[c] = RATES[c] )
        /\ last'.outcome = "rejected"
           => ( RATES' = RATES /\ pc' = "ask_rate" ) ]_vars

\* An accepted override of MXN over a table and a record that a fetch wrote.
C13_Witness ==
    /\ last.op = "manual" /\ last.outcome = "accepted"
    /\ RATES["MXN"] = Dec(375, -2)
    /\ IsRecord /\ cacheFile.rates.entries["MXN"] = JStr("20")

\* The remaining updates of today that the record in a file shows, 0 when
\* reading it raises.
Remaining(file) == listar_monedas(file, today).remaining

\* C14: applying the cached record at start-up calls no fetcher and leaves
\* the cache file as it is: the fetcher is called at start-up only by the
\* automatic update and only when updates remain today, a start-up without
\* a successful fetch leaves the file and so the remaining updates
\* unchanged, and so does the restart before it.
C14_ApplyQuotaFree ==
    [][ /\ StartupStep
           => ( /\ last'.fetcher
                   => ( pc' = "menu" /\ Remaining(cacheFile) > 0 )
                /\ last'.outcome # "refreshed"
                   => ( /\ cacheFile' = cacheFile
                        /\ fetched' = fetched
                        /\ Remaining(cacheFile') = Remaining(cacheFile) ) )
        /\ ( pc # "start" /\ pc' = "start" )
           => cacheFile' = cacheFile ]_vars

\* A restarted process applied all 11 cached entries with the quota of the
\* day used up, and did not fetch.
C14_Witness ==
    /\ last.op = "startup" /\ last.outcome = "skipped"
    /\ last.applied = {11} /\ last.fetcher = FALSE
    /\ IsRecord /\ cacheFile.day = {today}
    /\ cacheFile.fetch_count = JInt(MAX_PER_DAY)
    /\ fetched[today] = MAX_PER_DAY

\* The rate start-up is specified to leave for code c: the fetched value,
\* else the valid (supported, positive decimal) cached value, else the
\* compiled-in default.
PriorityRate(c, file, out) ==
    IF out.outcome = "refreshed" /\ c \in DOMAIN fetch_rates_from_api(out.api)
    THEN fetch_rates_from_api(out.api)[c]
    ELSE IF /\ file.kind = "object"
            /\ file.rates.type = "object"
            /\ c \in PositiveCodes(file.rates.entries)
    THEN Decimal(PyStr(file.rates.entries[c]))
    ELSE DefaultRates[c]

\* C16: when start-up has applied the cache and run its automatic update,
\* RATES holds for every supported code the fetched value if the update
\* succeeded and fetched the code, otherwise the cached value if the record
\* has a valid entry for it, otherwise the default.
C16_RatePriority ==
    [][ ( pc' = "menu" /\ RATES = DefaultRates /\ StartupStep )
        => \A c \in SUPPORTED : RATES'[c] = PriorityRate(c, cacheFile, last') ]_vars

\* C18: whatever the cache file holds, listing the rates and refreshing
\* from the menu run to completion without raising and the process stays at
\* the menu.
C18_MenuNeverRaises ==
    last.op \in {"list", "refresh"} => ( pc # "crashed" /\ last.outcome # "raised" )

\* remaining_today of the specification: MAX_PER_DAY less the fetches of
\* the record when its day is today, MAX_PER_DAY otherwise.
remaining_today(record, day) ==
    IF record.day = {day}
    THEN Max(0, MAX_PER_DAY - FetchCountOr0(record.fetch_count))
    ELSE MAX_PER_DAY

\* A record (or no record at all) whose fetch_count is an integer >= 0.
IntegerRecord(file) ==
    /\ load_cache_or_empty(file).kind = "object"
    /\ load_cache_or_empty(file).fetch_count.type \in {"absent", "int"}
    /\ FetchCountOr0(load_cache_or_empty(file).fetch_count) >= 0

\* C19: for a record with an integer fetch_count >= 0, the places that
\* evaluate the quota agree with remaining_today: the menu refresh is
\* refused exactly when it is 0, the start-up update is attempted exactly
\* when it is > 0, and the remaining count a successful refresh reports is
\* remaining_today of the record it saved, which the listing then shows.
C19_OneQuotaFunction ==
    [][ /\ ( IntegerRecord(cacheFile) /\ RefreshStep )
           => ( /\ last'.outcome = "quota" <=> remaining_today(Record, today) = 0
                /\ last'.fetcher <=> remaining_today(Record, today) > 0 )
        /\ ( IntegerRecord(cacheFile) /\ StartupStep )
           => ( /\ last'.fetcher <=> remaining_today(Record, today) > 0
                /\ last'.outcome = "skipped" <=> remaining_today(Record, today) = 0 )
        /\ IntegerRecord(cacheFile)
           => ( /\ listar_monedas(cacheFile, today).raised = FALSE
                /\ listar_monedas(cacheFile, today).remaining
                     = remaining_today(Record, today) )
        /\ FetchedStep
           => ( /\ last'.remaining = remaining_today(cacheFile', today)
                /\ last'.remaining = listar_monedas(cacheFile', today).remaining ) ]_vars

\* The second fetch of a day reported 0 remaining, and a later refresh was
\* refused on the record it saved.
C19_Witness ==
    /\ today = 2 /\ fetched[2] = MAX_PER_DAY /\ fetched[1] > 0
    /\ last.op = "refresh" /\ last.outcome = "quota"
    /\ remaining_today(Record, today) = 0

\* C17: in one sequential process whose cache writes may fail silently, the
\* successful fetches of a day never exceed MAX_PER_DAY.
C17_QuotaUnderWriteFailure ==
    \A d \in Days : fetched[d] <= MAX_PER_DAY

\* The count a process reads in the record it loaded.
LoadedCount(p) == FetchCountOr0(procs[p].cache.fetch_count)

\* C12: the steps of a refresh act on the count the process loaded, not on
\* the file: its check passes exactly when the loaded record leaves a fetch
\* for today, its fetch then succeeds whatever the file says by then, and
\* its save empties the file and then writes the loaded count plus one
\* (over the start of whatever another process wrote meanwhile).
\* Two processes that loaded the same record therefore both fetch, and the
\* fetches of one day exceed MAX_PER_DAY (the witness).
C12_RefreshRace ==
    [][ \A p \in Procs :
          /\ ( procs[p].at = "loaded" /\ procs'[p].at # "loaded" )
             => ( procs'[p].at = "checked"
                    <=> remaining_today(procs[p].cache, today) > 0 )
          /\ ( procs[p].at = "checked" /\ procs'[p].at = "fetched" )
             => ( /\ remaining_today(procs[p].cache, today) > 0
                  /\ fetched'[today] = fetched[today] + 1 )
          /\ ( procs[p].at = "fetched" /\ procs'[p].at = "opened" )
             => load_cache_or_empty(cacheFile') = EmptyDict
          /\ ( procs[p].at = "opened" /\ procs'[p].at = "idle" )
             => \/ /\ Size(cacheFile) > Size(procs[p].data)
                   /\ load_cache_or_empty(cacheFile') = EmptyDict
                \/ /\ Size(cacheFile) <= Size(procs[p].data)
                   /\ cacheFile'.fetch_count =
                         JInt(IF procs[p].cache.day = {today}
                              THEN LoadedCount(p) + 1 ELSE 1) ]_vars

C12_Witness ==
    /\ procs[1].at = "fetched" /\ procs[2].at = "fetched"
    /\ procs[1].cache = procs[2].cache
    /\ procs[1].cache.day = {today}
    /\ fetched[today] > MAX_PER_DAY

\* C15: with NProcs processes refreshing concurrently on one day, under
\* every interleaving of their load, check, fetch and save steps, the
\* successful fetches of the day never exceed MAX_PER_DAY + NProcs.
C15_OvershootBound == fetched[today] <= MAX_PER_DAY + NProcs
====
